---- MODULE Spec2Model ----
(***************************************************************************)
(* A model of keyring.go (package goaxle): the KeyRing proxy, its Save /   *)
(* GetKeyRing / DeleteKeyRing life cycle, the envelope unwrap              *)
(* populateKeyRingFromResponse, the list call KeyRings and the request     *)
(* URLs built with url.QueryEscape.                                        *)
(*                                                                         *)
(* The HTTP transport doHttpRequest and the server behind it are not part  *)
(* of the file: every call draws the transport's answer (an error, or a    *)
(* response body) from a bounded set of bodies.                            *)
(***************************************************************************)
EXTENDS Integers, Sequences, FiniteSets, Bags, TLC

VARIABLES proxy, inflight, history, last, call

vars == <<proxy, inflight, history, last, call>>

(***************************************************************************)
(* Bounds of the model.                                                    *)
(***************************************************************************)
\* time.Now() in milliseconds ranges over 1..MaxTime
MaxTime == 1
\* Save calls on the proxy that wait for the transport at the same time
MaxInFlight == 1
\* longest identifier (in characters) given to the URL builders
MaxLen == 5

(***************************************************************************)
(* float64 fields.  A finite timestamp is a natural number; NonFinite      *)
(* stands for the float64 values NaN, +Inf and -Inf, which the caller can  *)
(* store in the exported fields and which encoding/json refuses to encode. *)
(***************************************************************************)
NonFinite == 0 - 1

Times == 1..MaxTime

(***************************************************************************)
(* JSON values, as json.Unmarshal decodes them into interface{}.           *)
(* An array's elements are never looked at by the code and are left out.   *)
(***************************************************************************)
JNull == [t |-> "null"]
JBool(b) == [t |-> "bool", b |-> b]
JNum(n) == [t |-> "num", n |-> n]
JStr(s) == [t |-> "str", s |-> s]
JArr == [t |-> "array"]
JObj(m) == [t |-> "object", m |-> m]

\* a body that is not JSON at all
Invalid == [t |-> "invalid"]

EmptyMap == [k \in {} |-> JNull]

\* the one-entry map {k: v}
Entry(k, v) == [x \in {k} |-> v]

\* json.Unmarshal(body, &map): a JSON object fills the map, JSON null sets
\* the map to nil (which reads as an empty map), anything else is an error.
UnmarshalMap(body) ==
    CASE body.t = "object" -> [err |-> FALSE, m |-> body.m]
      [] body.t = "null" -> [err |-> FALSE, m |-> EmptyMap]
      [] OTHER -> [err |-> TRUE, m |-> EmptyMap]

(***************************************************************************)
(* The KeyRing struct.                                                     *)
(***************************************************************************)
Addresses == {"http://axle"}
Ids == {"k1", "k2"}

NoProxy == [Identifier |-> "", CreatedAt |-> 0, UpdatedAt |-> 0,
            axleAddress |-> "", createOnSave |-> FALSE]

NewKeyRing(axleAddress, identifier) ==
    [Identifier |-> identifier, CreatedAt |-> 0, UpdatedAt |-> 0,
     axleAddress |-> axleAddress, createOnSave |-> TRUE]

\* encoding/json matches a member's name to a field's JSON name exactly or,
\* failing that, without regard to case.  Strings cannot be taken apart
\* here, so the folding is a table over the spellings the responses of the
\* model use; any other name (identifier, results, ...) matches no field:
\* Identifier is tagged json:"-" and the other fields are unexported.
FoldName(name) ==
    CASE name \in {"createdAt", "CreatedAt", "CREATEDAT", "createdat"} -> "createdat"
      [] name \in {"updatedAt", "UpdatedAt", "UPDATEDAT", "updatedat"} -> "updatedat"
      [] OTHER -> name

\* the members of m matched to the field whose JSON name is key
Matching(m, key) == {k \in DOMAIN m : FoldName(k) = FoldName(key)}

\* the order in which the members are decoded: populateKeyRingFromResponse
\* and KeyRings re-encode the map with json.Marshal, which writes the keys
\* sorted byte-wise (upper case before lower case)
ByteOrder == <<"CREATEDAT", "CreatedAt", "UPDATEDAT", "UpdatedAt",
               "createdAt", "createdat", "updatedAt", "updatedat">>

Rank(name) == CHOOSE i \in 1..Len(ByteOrder) : ByteOrder[i] = name

\* the members of a JSON object that encoding/json stores in a KeyRing field
\* of type float64: a number sets the field (the last matching member in
\* decoding order stays), null leaves it, any other value is an
\* UnmarshalTypeError, after which decoding goes on with the next member
FieldAfter(old, m, key) ==
    LET nums == {k \in Matching(m, key) : m[k].t = "num"}
    IN  IF nums = {} THEN old
        ELSE m[CHOOSE k \in nums : \A j \in nums : Rank(j) <= Rank(k)].n

FieldTypeError(m, key) ==
    \E k \in Matching(m, key) : m[k].t \notin {"num", "null"}

\* json.Unmarshal(jsonvalue, keyRing) for a JSON object m: Identifier is
\* tagged json:"-" and the unexported fields are never touched
DecodeKeyRing(kr, m) ==
    [err |-> FieldTypeError(m, "createdAt") \/ FieldTypeError(m, "updatedAt"),
     kr |-> [kr EXCEPT !.CreatedAt = FieldAfter(kr.CreatedAt, m, "createdAt"),
                       !.UpdatedAt = FieldAfter(kr.UpdatedAt, m, "updatedAt")]]

\* the descent of populateKeyRingFromResponse along detailsLocation: the
\* map reached, or the first key that is absent or holds no JSON object
RECURSIVE Descend(_, _)
Descend(m, path) ==
    IF path = <<>> THEN [err |-> "nil", key |-> "", m |-> m]
    ELSE IF Head(path) \notin DOMAIN m
      THEN [err |-> "MissingKey", key |-> Head(path), m |-> m]
    ELSE IF m[Head(path)].t # "object"
      THEN [err |-> "NotMap", key |-> Head(path), m |-> m]
    ELSE Descend(m[Head(path)].m, Tail(path))

\* populateKeyRingFromResponse without the final decode's error check
populateIgnoresDecodeError(kr, body, detailsLocation) ==
    LET u == UnmarshalMap(body)
        d == Descend(u.m, detailsLocation)
        r == DecodeKeyRing(kr, d.m)
    IN  IF u.err THEN [err |-> "Unmarshal", key |-> "", kr |-> kr]
        ELSE IF d.err # "nil" THEN [err |-> d.err, key |-> d.key, kr |-> kr]
        ELSE [err |-> "nil", key |-> "", kr |-> r.kr]

\* the error returned and the KeyRing as the call leaves it.  The final
\* json.Unmarshal gets a **KeyRing whose *KeyRing is not nil and a JSON
\* object, so it decodes into the struct in place.
populateKeyRingFromResponse(kr, body, detailsLocation) ==
    LET u == UnmarshalMap(body)
        d == Descend(u.m, detailsLocation)
        r == DecodeKeyRing(kr, d.m)
    IN  IF u.err THEN [err |-> "Unmarshal", key |-> "", kr |-> kr]
        ELSE IF d.err # "nil" THEN [err |-> d.err, key |-> d.key, kr |-> kr]
        ELSE IF r.err THEN [err |-> "Decode", key |-> "", kr |-> r.kr]
        ELSE [err |-> "nil", key |-> "", kr |-> r.kr]

(***************************************************************************)
(* json.Marshal(this).  CreatedAt and UpdatedAt are tagged omitempty: a    *)
(* zero field is left out.  A NaN or infinite float64 is not zero and      *)
(* cannot be encoded: json.Marshal returns an UnsupportedValueError.       *)
(***************************************************************************)
MarshalKeyRing(kr) ==
    LET keys == {k \in {"createdAt", "updatedAt"} :
                    IF k = "createdAt" THEN kr.CreatedAt # 0 ELSE kr.UpdatedAt # 0}
    IN  [err |-> kr.CreatedAt = NonFinite \/ kr.UpdatedAt = NonFinite,
         m |-> [k \in keys |->
                   JNum(IF k = "createdAt" THEN kr.CreatedAt ELSE kr.UpdatedAt)]]

(***************************************************************************)
(* The transport's answer to one request: a failure, or a response body.   *)
(***************************************************************************)
TransportFail == [t |-> "transport-error"]

\* the sub-objects a response may carry where the keyring's fields belong
FieldValues == {JNum(1), JStr("x"), JNull}
FieldObjects ==
    {JObj(EmptyMap)}
    \cup {JObj(Entry("createdAt", v)) : v \in FieldValues}
    \cup {JObj(Entry("updatedAt", v)) : v \in FieldValues}
    \cup {JObj([k \in {"createdAt", "updatedAt"} |->
                  IF k = "createdAt" THEN v ELSE w]) :
             v \in FieldValues, w \in FieldValues}

\* sub-objects whose members are spelled in another case than the tags
\* createdAt and updatedAt
CaseVariantObjects ==
    {JObj(Entry("CreatedAt", JNum(2))), JObj(Entry("CREATEDAT", JStr("x"))),
     JObj(Entry("UPDATEDAT", JNum(2))), JObj(Entry("UpdatedAt", JStr("x"))),
     JObj([k \in {"CreatedAt", "createdAt"} |->
             IF k = "CreatedAt" THEN JNum(2) ELSE JNum(1)]),
     JObj([k \in {"createdAt", "createdat"} |->
             IF k = "createdAt" THEN JNum(1) ELSE JNum(2)])}

ResultsValues ==
    FieldObjects \cup CaseVariantObjects \cup {JBool(TRUE), JBool(FALSE), JStr("true"), JNull, JArr}

Bodies ==
    {Invalid, JNull, JArr, JObj(EmptyMap), JObj(Entry("other", JObj(EmptyMap)))}
    \cup {JObj(Entry("results", r)) : r \in ResultsValues}

Answers == {TransportFail} \cup Bodies

\* the answers drawn in the life cycle: one for each way a call can end
LifeAnswers ==
    {TransportFail, Invalid, JObj(EmptyMap),
     JObj(Entry("results", JBool(TRUE))),
     JObj(Entry("results", JBool(FALSE))),
     JObj(Entry("results", JStr("true"))),
     JObj(Entry("results", JObj(EmptyMap))),
     JObj(Entry("results", JObj([k \in {"createdAt", "updatedAt"} |-> JNum(1)]))),
     JObj(Entry("results", JObj([k \in {"createdAt", "updatedAt"} |->
                                   IF k = "createdAt" THEN JNum(1) ELSE JStr("x")]))),
     JObj(Entry("results", JObj(Entry("CREATEDAT", JStr("x"))))),
     JObj(Entry("results", JObj(Entry("new", JObj(Entry("createdAt", JNum(1)))))))}

(***************************************************************************)
(* KeyRing.Save.  The call waits in doHttpRequest, and the file takes no   *)
(* lock: whatever else the caller's goroutines do to the proxy happens     *)
(* between the part before the request and the part after the response.    *)
(***************************************************************************)
\* lines 42-61: stamp UpdatedAt, marshal, refuse an update.  returned says
\* whether Save has returned (with err) or has sent the POST request.
SaveEntry(this, now) ==
    LET stamped == [this EXCEPT !.UpdatedAt = now]
    IN  IF MarshalKeyRing(stamped).err
          THEN [returned |-> TRUE, err |-> "Marshal", kr |-> stamped]
        ELSE IF ~this.createOnSave
          THEN [returned |-> TRUE, err |-> "UpdateNotSupported", kr |-> stamped]
        ELSE [returned |-> FALSE, err |-> "nil", kr |-> stamped]

\* SaveResume without the assignment this.createOnSave = false
SaveResumeKeepsFlag(this, seen, answer) ==
    LET p == populateKeyRingFromResponse(this, answer,
                 IF ~seen THEN <<"results", "new">> ELSE <<"results">>)
    IN  IF answer = TransportFail THEN [err |-> "Transport", kr |-> this]
        ELSE [err |-> p.err, kr |-> p.kr]

\* lines 63-81, on the proxy as it is when the answer arrives.  seen is the
\* value line 68 reads from this.createOnSave.
SaveResume(this, seen, answer) ==
    LET p == populateKeyRingFromResponse(this, answer,
                 IF ~seen THEN <<"results", "new">> ELSE <<"results">>)
    IN  IF answer = TransportFail THEN [err |-> "Transport", kr |-> this]
        ELSE IF p.err # "nil" THEN [err |-> p.err, kr |-> p.kr]
        ELSE [err |-> "nil", kr |-> [p.kr EXCEPT !.createOnSave = FALSE]]

(***************************************************************************)
(* GetKeyRing: the error returned and the proxy returned (NoProxy for nil).*)
(***************************************************************************)
GetKeyRing(axleAddress, identifier, answer) ==
    LET p == populateKeyRingFromResponse(NewKeyRing(axleAddress, identifier),
                                         answer, <<"results">>)
    IN  IF answer = TransportFail THEN [err |-> "Transport", kr |-> NoProxy]
        ELSE IF p.err # "nil" THEN [err |-> p.err, kr |-> NoProxy]
        ELSE [err |-> "nil", kr |-> [p.kr EXCEPT !.createOnSave = FALSE]]

\* DeleteKeyRing without the test of the acknowledgement's value
DeleteKeyRingIgnoresValue(answer) ==
    LET u == UnmarshalMap(answer)
    IN  IF answer = TransportFail THEN "Transport"
        ELSE IF u.err THEN "Unmarshal"
        ELSE IF "results" \notin DOMAIN u.m THEN "MissingResponse"
        ELSE IF u.m["results"].t # "bool" THEN "NotBool"
        ELSE "nil"

(***************************************************************************)
(* DeleteKeyRing: the error returned.                                      *)
(***************************************************************************)
DeleteKeyRing(answer) ==
    LET u == UnmarshalMap(answer)
    IN  IF answer = TransportFail THEN "Transport"
        ELSE IF u.err THEN "Unmarshal"
        ELSE IF "results" \notin DOMAIN u.m THEN "MissingResponse"
        ELSE IF u.m["results"].t # "bool" THEN "NotBool"
        ELSE IF ~u.m["results"].b THEN "DeleteFailed"
        ELSE "nil"

(***************************************************************************)
(* The life cycle of one proxy and the calls made on it.  The model        *)
(* follows a single KeyRing variable of the caller: no function of the     *)
(* file reads or writes package state, so calls on one proxy never affect  *)
(* another.  inflight holds the Save calls that have sent their request    *)
(* and wait for the answer, each with the fields the proxy had when it was *)
(* called and whether DeleteKeyRing had succeeded by then.  history        *)
(* records how the proxy was obtained, whether a Save on it has returned   *)
(* nil and whether DeleteKeyRing has succeeded for its address and         *)
(* identifier since.  last is the call that just returned: its error and,  *)
(* for Save, the createOnSave it was called with (pending), whether it was *)
(* called after a successful delete, and whether it left CreatedAt,        *)
(* UpdatedAt and createOnSave as they were when it was called (same).      *)
(***************************************************************************)
NoHistory == [origin |-> "none", saved |-> FALSE, deleted |-> FALSE]
NoCall == [op |-> "none"]

Returned(op, err) ==
    [op |-> op, err |-> err, pending |-> FALSE, afterDelete |-> FALSE, same |-> TRUE]

Fields(kr) ==
    [CreatedAt |-> kr.CreatedAt, UpdatedAt |-> kr.UpdatedAt,
     createOnSave |-> kr.createOnSave]

Init ==
    /\ proxy = NoProxy
    /\ inflight = EmptyBag
    /\ history = NoHistory
    /\ last = Returned("none", "nil")
    /\ call = NoCall

Held == history.origin # "none"

\* the variable now refers to a new object: the calls in flight on the old
\* one are no longer followed
DoNewKeyRing(a, id) ==
    /\ proxy' = NewKeyRing(a, id)
    /\ inflight' = EmptyBag
    /\ history' = [origin |-> "NewKeyRing", saved |-> FALSE, deleted |-> FALSE]
    /\ last' = Returned("NewKeyRing", "nil")
    /\ UNCHANGED call

\* the caller assigns to an exported field
SetCreatedAt(v) ==
    /\ Held
    /\ proxy' = [proxy EXCEPT !.CreatedAt = v]
    /\ last' = Returned("SetCreatedAt", "nil")
    /\ UNCHANGED <<inflight, history, call>>

SetUpdatedAt(v) ==
    /\ Held
    /\ proxy' = [proxy EXCEPT !.UpdatedAt = v]
    /\ last' = Returned("SetUpdatedAt", "nil")
    /\ UNCHANGED <<inflight, history, call>>

\* Save up to its return before the request, or up to the request
DoSaveEnter(now) ==
    LET e == SaveEntry(proxy, now)
    IN  /\ Held
        /\ e.returned \/ BagCardinality(inflight) < MaxInFlight
        /\ proxy' = e.kr
        /\ IF e.returned
             THEN /\ last' = [op |-> "Save", err |-> e.err,
                              pending |-> proxy.createOnSave,
                              afterDelete |-> history.deleted,
                              same |-> Fields(e.kr) = Fields(proxy)]
                  /\ UNCHANGED inflight
             ELSE /\ last' = Returned("SaveRequest", "nil")
                  /\ inflight' = inflight (+) SetToBag({[pre |-> Fields(proxy),
                                               afterDelete |-> history.deleted]})
        /\ UNCHANGED <<history, call>>

\* the answer to the request of the waiting call c arrives.  Line 68 reads
\* createOnSave without synchronisation: it sees the value the call started
\* with (TRUE) or the value another Save has written since.
DoSaveResume(c, seen, answer) ==
    LET r == SaveResume(proxy, seen, answer)
    IN  /\ BagIn(c, inflight)
        /\ seen \in {TRUE, proxy.createOnSave}
        /\ proxy' = r.kr
        /\ inflight' = inflight (-) SetToBag({c})
        /\ history' = [history EXCEPT !.saved = @ \/ r.err = "nil"]
        /\ last' = [op |-> "Save", err |-> r.err, pending |-> c.pre.createOnSave,
                    afterDelete |-> c.afterDelete, same |-> Fields(r.kr) = c.pre]
        /\ UNCHANGED call

\* the caller keeps the proxy returned; on an error it keeps what it had.
\* GetKeyRing works on an object of its own until it returns.
DoGetKeyRing(a, id, answer) ==
    LET r == GetKeyRing(a, id, answer)
    IN  /\ IF r.err = "nil"
             THEN /\ proxy' = r.kr
                  /\ inflight' = EmptyBag
                  /\ history' = [origin |-> "GetKeyRing", saved |-> FALSE,
                                 deleted |-> FALSE]
             ELSE UNCHANGED <<proxy, inflight, history>>
        /\ last' = Returned("GetKeyRing", r.err)
        /\ UNCHANGED call

DoDeleteKeyRing(a, id, answer) ==
    LET err == DeleteKeyRing(answer)
    IN  /\ history' =
              IF err = "nil" /\ Held /\ proxy.Identifier = id /\ proxy.axleAddress = a
                THEN [history EXCEPT !.deleted = TRUE]
                ELSE history
        /\ last' = Returned("DeleteKeyRing", err)
        /\ UNCHANGED <<proxy, inflight, call>>

\* the values the caller stores: zero and a non-finite float64 (finite
\* times arrive through Save and the responses)
FloatValues == {0, NonFinite}

Next ==
    \/ \E a \in Addresses, id \in Ids : DoNewKeyRing(a, id)
    \/ \E v \in FloatValues : SetCreatedAt(v)
    \/ \E v \in FloatValues : SetUpdatedAt(v)
    \/ \E now \in Times : DoSaveEnter(now)
    \/ \E c \in BagToSet(inflight), seen \in BOOLEAN, answer \in LifeAnswers :
          DoSaveResume(c, seen, answer)
    \/ \E a \in Addresses, id \in Ids, answer \in LifeAnswers : DoGetKeyRing(a, id, answer)
    \/ \E a \in Addresses, id \in Ids, answer \in LifeAnswers : DoDeleteKeyRing(a, id, answer)

Spec == Init /\ [][Next]_vars


(***************************************************************************)
(* KeyRings (list all).  order is the order in which Go's range visits the *)
(* entries of the results map, which the language leaves unspecified.      *)
(* outcome is "ok" (out, nil), "error" (nil, err) or "panic".              *)
(***************************************************************************)
\* json.Marshal(value) followed by json.Unmarshal(jsonvalue, keyring) with a
\* *KeyRing: an object is decoded into the struct, null is a no-op, any
\* other JSON value is an UnmarshalTypeError
DecodeEntry(kr, value) ==
    CASE value.t = "object" -> DecodeKeyRing(kr, value.m)
      [] value.t = "null" -> [err |-> FALSE, kr |-> kr]
      [] OTHER -> [err |-> TRUE, kr |-> kr]

\* the loop of KeyRings without the x++
KeyRingsEntriesNoIncrement(axleAddress, m, order) ==
    [x \in 1..Len(order) |->
        IF x = 1
          THEN [DecodeEntry(NewKeyRing(axleAddress, order[Len(order)]),
                            m[order[Len(order)]]).kr
                   EXCEPT !.createOnSave = FALSE]
          ELSE NoProxy]

KeyRingsEntries(axleAddress, m, order) ==
    [x \in 1..Len(order) |->
        [DecodeEntry(NewKeyRing(axleAddress, order[x]), m[order[x]]).kr
            EXCEPT !.createOnSave = FALSE]]

KeyRings(axleAddress, answer, order) ==
    LET u == UnmarshalMap(answer)
        validCast == "results" \in DOMAIN u.m /\ u.m["results"].t = "object"
        response == u.m["results"].m
    IN  IF answer = TransportFail
          THEN [outcome |-> "error", err |-> "Transport", out |-> <<>>]
        ELSE IF u.err
          THEN [outcome |-> "error", err |-> "Unmarshal", out |-> <<>>]
        ELSE IF ~validCast
          \* err is nil here (json.Unmarshal succeeded), and building the
          \* error message calls err.Error(): a nil dereference
          THEN [outcome |-> "panic", err |-> "nil", out |-> <<>>]
        ELSE IF \E k \in DOMAIN response :
                   DecodeEntry(NewKeyRing(axleAddress, k), response[k]).err
          THEN [outcome |-> "error", err |-> "Decode", out |-> <<>>]
        ELSE [outcome |-> "ok", err |-> "nil",
              out |-> KeyRingsEntries(axleAddress, response, order)]

\* the orders in which a map with key set S can be visited
Orders(S) ==
    {f \in [1..Cardinality(S) -> S] :
        \A i, j \in 1..Cardinality(S) : i # j => f[i] # f[j]}

(***************************************************************************)
(* The calls as functions of their inputs: Init draws the inputs of one    *)
(* call, and the call's action records what it returns.                    *)
(***************************************************************************)
\* responses of the update path, nested under "results", "new"
NestedBodies ==
    {JObj(Entry("results", JObj(Entry("new", r)))) :
        r \in FieldObjects \cup {JNum(1), JNull}}

\* the example response {"results": {"identifier": "x", "createdAt": 1}}
ExampleBody ==
    JObj(Entry("results",
         JObj([k \in {"identifier", "createdAt"} |->
                 IF k = "identifier" THEN JStr("x") ELSE JNum(1)])))

PopulateBodies == Bodies \cup NestedBodies \cup {ExampleBody}
PopulatePaths == {<<"results">>, <<"results", "new">>}
PopulateTargets ==
    {[NewKeyRing(a, id) EXCEPT !.CreatedAt = c, !.UpdatedAt = u] :
        a \in Addresses, id \in {"x", "k1"}, c \in {0, 2}, u \in {0, 2}}

\* list responses: "results" maps identifiers to keyring fields
ListIds == {"k1", "k2", "k3"}
ListValues ==
    {JObj(EmptyMap), JObj(Entry("createdAt", JNum(1))),
     JObj(Entry("createdAt", JStr("x"))), JObj(Entry("CREATEDAT", JNum(2))),
     JObj(Entry("UpdatedAt", JStr("x"))), JNull, JNum(1)}
ListMaps == UNION {[S -> ListValues] : S \in SUBSET ListIds}
ListAnswers == Answers \cup {JObj(Entry("results", JObj(m))) : m \in ListMaps}

CallInputs ==
    {[op |-> "populate-args", kr |-> kr, body |-> b, path |-> p] :
        kr \in PopulateTargets, b \in PopulateBodies, p \in PopulatePaths}
    \cup {[op |-> "delete-args", a |-> a, id |-> id, answer |-> w] :
        a \in Addresses, id \in Ids, w \in Answers}
    \cup {[op |-> "list-args", a |-> a, answer |-> w] :
        a \in Addresses, w \in ListAnswers}

InitCalls ==
    /\ proxy = NoProxy
    /\ inflight = EmptyBag
    /\ history = NoHistory
    /\ last = Returned("none", "nil")
    /\ call \in CallInputs

CallPopulate ==
    /\ call.op = "populate-args"
    /\ call' = [op |-> "populateKeyRingFromResponse", args |-> call,
                res |-> populateKeyRingFromResponse(call.kr, call.body, call.path)]
    /\ UNCHANGED <<proxy, inflight, history, last>>

CallDeleteKeyRing ==
    /\ call.op = "delete-args"
    /\ call' = [op |-> "DeleteKeyRing", args |-> call,
                err |-> DeleteKeyRing(call.answer)]
    /\ UNCHANGED <<proxy, inflight, history, last>>

\* the key set KeyRings ranges over (empty when it returns before the loop)
ListKeys(answer) ==
    IF answer.t = "object" /\ "results" \in DOMAIN answer.m
                           /\ answer.m["results"].t = "object"
      THEN DOMAIN answer.m["results"].m
      ELSE {}

CallKeyRings ==
    /\ call.op = "list-args"
    /\ \E order \in Orders(ListKeys(call.answer)) :
          call' = [op |-> "KeyRings", args |-> call, order |-> order,
                   res |-> KeyRings(call.a, call.answer, order)]
    /\ UNCHANGED <<proxy, inflight, history, last>>

NextCalls == CallPopulate \/ CallDeleteKeyRing \/ CallKeyRings

SpecCalls == InitCalls /\ [][NextCalls]_vars

(***************************************************************************)
(* Claims about the life cycle (checked under Spec).                       *)
(***************************************************************************)

\* C1: a proxy has createOnSave = TRUE exactly when it was built by
\* NewKeyRing and no Save on it has returned nil; a proxy returned by
\* GetKeyRing has createOnSave = FALSE, and a Save that returns nil leaves
\* createOnSave = FALSE.
C1_PendingCreate ==
    /\ Held =>
          /\ proxy.createOnSave = (history.origin = "NewKeyRing" /\ ~history.saved)
          /\ history.origin = "GetKeyRing" => ~proxy.createOnSave
    /\ (last.op = "Save" /\ last.err = "nil") => ~proxy.createOnSave
    /\ (last.op = "GetKeyRing" /\ last.err = "nil") => ~proxy.createOnSave
    /\ last.op = "NewKeyRing" => proxy.createOnSave

\* a proxy built by NewKeyRing on which a Save has just returned nil
C1_Witness ==
    /\ last.op = "Save" /\ last.err = "nil"
    /\ history.origin = "NewKeyRing"
    /\ history.saved
    /\ ~proxy.createOnSave

\* C2 (as claimed): a Save on a proxy whose createOnSave is FALSE returns the
\* update-not-supported error, whatever its fields hold and whatever the
\* transport would answer.
C2_AlwaysUpdateNotSupported ==
    (last.op = "Save" /\ ~last.pending) => last.err = "UpdateNotSupported"

\* C3 (as claimed): once DeleteKeyRing has succeeded for the address and
\* identifier of a proxy the caller holds, every Save called on that proxy
\* afterwards returns an error.
C3_SaveFailsAfterDelete ==
    (last.op = "Save" /\ last.afterDelete) => last.err # "nil"

\* C4 (as claimed): a Save that returns an error leaves CreatedAt, UpdatedAt
\* and createOnSave as they were before the call.
C4_SaveAllOrNothing ==
    (last.op = "Save" /\ last.err # "nil") => last.same

(***************************************************************************)
(* Claims about single calls (checked under SpecCalls).                    *)
(***************************************************************************)

\* C5: DeleteKeyRing returns nil if and only if the transport call succeeds
\* and the body is a JSON object whose "results" member is the boolean true;
\* an absent, false or non-boolean "results" (the string "true") is an error.
C5_DeleteSucceedsIffTrue ==
    call.op = "DeleteKeyRing" =>
        LET answer == call.args.answer
        IN  /\ (call.err = "nil") <=>
                  /\ answer # TransportFail
                  /\ answer.t = "object"
                  /\ "results" \in DOMAIN answer.m
                  /\ answer.m["results"] = JBool(TRUE)
            /\ answer = JObj(Entry("results", JStr("true"))) => call.err = "NotBool"
            /\ answer = JObj(Entry("results", JBool(FALSE))) => call.err = "DeleteFailed"
            /\ answer = JObj(EmptyMap) => call.err = "MissingResponse"

\* DeleteKeyRing has returned nil for the body {"results": true}
C5_Witness ==
    /\ call.op = "DeleteKeyRing"
    /\ call.args.answer = JObj(Entry("results", JBool(TRUE)))
    /\ call.err = "nil"

\* every member named createdAt or updatedAt, in whatever case, is a number
\* or null
WellTyped(m) ==
    \A k \in DOMAIN m :
        FoldName(k) \in {"createdat", "updatedat"} => m[k].t \in {"num", "null"}

\* the "results" member maps identifiers to objects with well-typed fields
IsKeyRingMap(answer) ==
    /\ answer.t = "object"
    /\ "results" \in DOMAIN answer.m
    /\ answer.m["results"].t = "object"
    /\ \A k \in DOMAIN answer.m["results"].m :
          /\ answer.m["results"].m[k].t = "object"
          /\ WellTyped(answer.m["results"].m[k].m)

\* C7: for a response whose "results" maps identifiers to keyring fields,
\* KeyRings returns one proxy per entry: no nil slot, no identifier twice,
\* the identifiers returned are the map's keys, and every proxy has
\* createOnSave = FALSE.
C7_OneProxyPerEntry ==
    (call.op = "KeyRings" /\ IsKeyRingMap(call.args.answer)) =>
        LET keys == DOMAIN call.args.answer.m["results"].m
            out == call.res.out
        IN  /\ call.res.outcome = "ok"
            /\ Len(out) = Cardinality(keys)
            /\ \A x \in 1..Len(out) : out[x] # NoProxy /\ ~out[x].createOnSave
            /\ \A x, y \in 1..Len(out) : x # y => out[x].Identifier # out[y].Identifier
            /\ {out[x].Identifier : x \in 1..Len(out)} = keys

\* KeyRings has returned two proxies for a response with entries k1 and k2
C7_Witness ==
    /\ call.op = "KeyRings"
    /\ IsKeyRingMap(call.args.answer)
    /\ DOMAIN call.args.answer.m["results"].m = {"k1", "k2"}
    /\ call.res.outcome = "ok"
    /\ Len(call.res.out) = 2

\* a JSON object whose "results" member is absent or is not an object
ResultsNotObject(answer) ==
    /\ answer.t = "object"
    /\ \/ "results" \notin DOMAIN answer.m
       \/ answer.m["results"].t # "object"

\* C9 (as claimed): when the body is valid JSON whose "results" member is
\* absent or is not an object, KeyRings returns an error: it does not panic
\* and does not return a result.
C9_ListErrorReturned ==
    (call.op = "KeyRings" /\ ResultsNotObject(call.args.answer))
        => call.res.outcome = "error"

\* every key of the path, in order, is present and holds a JSON object
RECURSIVE PathOk(_, _)
PathOk(v, path) ==
    /\ v.t = "object"
    /\ \/ path = <<>>
       \/ /\ Head(path) \in DOMAIN v.m
          /\ PathOk(v.m[Head(path)], Tail(path))

\* the value the path leads to
RECURSIVE Reach(_, _)
Reach(v, path) ==
    IF path = <<>> THEN v ELSE Reach(v.m[Head(path)], Tail(path))

\* the error is reported at the first key that is absent or holds no object
FailsAtFirstBadKey(body, path, res) ==
    \E i \in 1..Len(path) :
        /\ PathOk(body, SubSeq(path, 1, i - 1))
        /\ ~PathOk(body, SubSeq(path, 1, i))
        /\ res.key = path[i]
        /\ res.err = IF path[i] \in DOMAIN Reach(body, SubSeq(path, 1, i - 1)).m
                       THEN "NotMap" ELSE "MissingKey"

\* the numeric members of final that are named key, in whatever case
Numeric(final, key) ==
    {k \in DOMAIN final.m : FoldName(k) = FoldName(key) /\ final.m[k].t = "num"}

\* v is the value of the numeric member named key that is decoded last
TakenFrom(final, key, v) ==
    \E k \in Numeric(final, key) :
        /\ final.m[k].n = v
        /\ \A j \in Numeric(final, key) : Rank(j) <= Rank(k)

\* on success the numeric createdAt / updatedAt members of the final
\* sub-object are stored and the identifier is the one constructed with
PopulatedFrom(kr, final, res) ==
    /\ res.kr.Identifier = kr.Identifier
    /\ res.kr.createOnSave = kr.createOnSave
    /\ Numeric(final, "createdAt") # {}
          => TakenFrom(final, "createdAt", res.kr.CreatedAt)
    /\ Numeric(final, "updatedAt") # {}
          => TakenFrom(final, "updatedAt", res.kr.UpdatedAt)

\* a field for which the final sub-object has no numeric member is kept
KeepsUnset(kr, final, res) ==
    /\ Numeric(final, "createdAt") = {} => res.kr.CreatedAt = kr.CreatedAt
    /\ Numeric(final, "updatedAt") = {} => res.kr.UpdatedAt = kr.UpdatedAt

\* C10 (as claimed): the unwrap succeeds if and only if every key of the
\* path is present and holds a JSON object; it fails at the first key that
\* is absent or holds no object; on success the timestamps come from the
\* final sub-object and the identifier stays the one constructed with.
C10_UnwrapIffPathOk ==
    call.op = "populateKeyRingFromResponse" =>
        LET a == call.args
        IN  /\ (call.res.err = "nil") <=> PathOk(a.body, a.path)
            /\ (a.body.t = "object" /\ ~PathOk(a.body, a.path))
                  => FailsAtFirstBadKey(a.body, a.path, call.res)
            /\ call.res.err = "nil"
                  => PopulatedFrom(a.kr, Reach(a.body, a.path), call.res)

\* C10 (amended): the unwrap succeeds if and only if every key of the path
\* is present and holds a JSON object and the members of the final
\* sub-object named createdAt or updatedAt, in whatever case, are numbers or
\* null (otherwise it returns a decode error); a field with no numeric
\* member keeps its value; the rest as claimed.
C10_UnwrapIffPathOkAndTyped ==
    call.op = "populateKeyRingFromResponse" =>
        LET a == call.args
        IN  /\ (call.res.err = "nil") <=>
                  /\ PathOk(a.body, a.path)
                  /\ WellTyped(Reach(a.body, a.path).m)
            /\ (a.body.t = "object" /\ ~PathOk(a.body, a.path))
                  => FailsAtFirstBadKey(a.body, a.path, call.res)
            /\ (PathOk(a.body, a.path) /\ ~WellTyped(Reach(a.body, a.path).m))
                  => call.res.err = "Decode"
            /\ call.res.err = "nil"
                  => /\ PopulatedFrom(a.kr, Reach(a.body, a.path), call.res)
                     /\ KeepsUnset(a.kr, Reach(a.body, a.path), call.res)

\* the unwrap of {"results": {"identifier": "x", "createdAt": 1}} at
\* <<"results">> into a proxy constructed with identifier "x" has succeeded
C10_Witness ==
    /\ call.op = "populateKeyRingFromResponse"
    /\ call.args.body = ExampleBody
    /\ call.args.path = <<"results">>
    /\ call.args.kr.Identifier = "x"
    /\ call.res.err = "nil"
    /\ call.res.kr.Identifier = "x"
    /\ call.res.kr.CreatedAt = 1


(***************************************************************************)
(* Request URLs.  Go strings are sequences of characters here; a URL is    *)
(* the sequence of the pieces fmt.Sprintf joins: the literal parts of the  *)
(* format as one piece each, the escaped and formatted arguments character *)
(* by character.                                                           *)
(***************************************************************************)
\* VERSION_ENDPOINT is a constant of the package set in another file
VERSION_ENDPOINT == "VERSION_ENDPOINT"

Alphabet == {"a", "b", "c", " ", "/"}

Ascii(c) ==
    CASE c = " " -> 32
      [] c = "/" -> 47
      [] c = "a" -> 97
      [] c = "b" -> 98
      [] c = "c" -> 99

\* the characters url.QueryEscape leaves alone, among those of Alphabet
\* (letters, digits, '-', '_', '.', '~' in general)
Unreserved == {"a", "b", "c"}

UpperHex == <<"0", "1", "2", "3", "4", "5", "6", "7",
              "8", "9", "A", "B", "C", "D", "E", "F">>

PercentCode(c) ==
    <<"%", UpperHex[(Ascii(c) \div 16) + 1], UpperHex[(Ascii(c) % 16) + 1]>>

\* url.QueryEscape: a space becomes '+', every other character that is not
\* unreserved becomes %XX
RECURSIVE QueryEscape(_)
QueryEscape(s) ==
    IF s = <<>> THEN <<>>
    ELSE (IF Head(s) = " " THEN <<"+">>
          ELSE IF Head(s) \notin Unreserved THEN PercentCode(Head(s))
          ELSE <<Head(s)>>) \o QueryEscape(Tail(s))

\* fmt's %d
Digits == <<"0", "1", "2", "3", "4", "5", "6", "7", "8", "9">>
RECURSIVE Itoa(_)
Itoa(n) ==
    IF n < 0 THEN <<"-">> \o Itoa(0 - n)
    ELSE IF n < 10 THEN <<Digits[n + 1]>>
    ELSE Itoa(n \div 10) \o <<Digits[(n % 10) + 1]>>

SaveURL(this) ==
    <<this.axleAddress, VERSION_ENDPOINT, "keyring/">> \o QueryEscape(this.Identifier)

GetKeyRingURL(axleAddress, identifier) ==
    <<axleAddress, VERSION_ENDPOINT, "keyring/">> \o QueryEscape(identifier)

DeleteKeyRingURL(axleAddress, identifier) ==
    <<axleAddress, VERSION_ENDPOINT, "keyring/">> \o QueryEscape(identifier)

KeyRingLinkKeyURL(axleAddress, keyRingIdentifier, keyIdentifier) ==
    <<axleAddress, VERSION_ENDPOINT, "keyring/">> \o QueryEscape(keyRingIdentifier)
        \o <<"/linkkey/">> \o QueryEscape(keyIdentifier)

KeyRingUnlinkKeyURL(axleAddress, keyRingIdentifier, keyIdentifier) ==
    <<axleAddress, VERSION_ENDPOINT, "keyring/">> \o QueryEscape(keyRingIdentifier)
        \o <<"/unlinkkey/">> \o QueryEscape(keyIdentifier)

KeyRingKeysURL(axleAddress, identifier, from, to) ==
    <<axleAddress, VERSION_ENDPOINT, "keyring/">> \o QueryEscape(identifier)
        \o <<"/keys?resolve=true&from=">> \o Itoa(from) \o <<"&to=">> \o Itoa(to)

\* the parameters in the order of the Go signature: forapi, then forkey
KeyRingStatsURL(axleAddress, keyRingIdentifier, from, to, forapi, forkey, granularity) ==
    <<axleAddress, VERSION_ENDPOINT, "keyring/">> \o QueryEscape(keyRingIdentifier)
        \o <<"/stats?from=">> \o Itoa(from) \o <<"&to=">> \o Itoa(to)
        \o <<"&granularity=", granularity>>
        \o (IF forkey # <<>> THEN <<"&forkey=">> \o QueryEscape(forkey) ELSE <<>>)
        \o (IF forapi # <<>> THEN <<"&forapi=">> \o QueryEscape(forapi) ELSE <<>>)

StatsURL(this, from, to, granularity) ==
    KeyRingStatsURL(this.axleAddress, this.Identifier, from, to, <<>>, <<>>, granularity)

StatsForKeyURL(this, from, to, forkey, granularity) ==
    KeyRingStatsURL(this.axleAddress, this.Identifier, from, to, forkey, <<>>, granularity)

StatsForApiURL(this, from, to, forapi, granularity) ==
    KeyRingStatsURL(this.axleAddress, this.Identifier, from, to, <<>>, forapi, granularity)

\* the inputs of one call
Strings(n) == UNION {[1..k -> Alphabet] : k \in 0..n}
SubIds == {<<>>, <<"a">>, <<"b", " ">>}
Granularities == {"hour"}

UrlInputs ==
    {[op |-> "url-args", a |-> a, id |-> id, key |-> k,
      from |-> 7, to |-> 15, g |-> g] :
        a \in Addresses, id \in Strings(MaxLen), k \in SubIds, g \in Granularities}

InitUrl ==
    /\ proxy = NoProxy
    /\ inflight = EmptyBag
    /\ history = NoHistory
    /\ last = Returned("none", "nil")
    /\ call \in UrlInputs

This(a, id) == [NewKeyRing(a, id) EXCEPT !.createOnSave = FALSE]

Request(op, url) ==
    /\ call.op = "url-args"
    /\ call' = [op |-> op, args |-> call, url |-> url]
    /\ UNCHANGED <<proxy, inflight, history, last>>

UrlSave == Request("Save", SaveURL(This(call.a, call.id)))
UrlGetKeyRing == Request("GetKeyRing", GetKeyRingURL(call.a, call.id))
UrlDeleteKeyRing == Request("DeleteKeyRing", DeleteKeyRingURL(call.a, call.id))
UrlLinkKey == Request("KeyRingLinkKey", KeyRingLinkKeyURL(call.a, call.id, call.key))
UrlUnlinkKey ==
    Request("KeyRingUnlinkKey", KeyRingUnlinkKeyURL(call.a, call.id, call.key))
UrlKeys == Request("KeyRingKeys", KeyRingKeysURL(call.a, call.id, call.from, call.to))
UrlStats ==
    Request("Stats", StatsURL(This(call.a, call.id), call.from, call.to, call.g))
UrlStatsForKey ==
    Request("StatsForKey",
            StatsForKeyURL(This(call.a, call.id), call.from, call.to, call.key, call.g))
UrlStatsForApi ==
    Request("StatsForApi",
            StatsForApiURL(This(call.a, call.id), call.from, call.to, call.key, call.g))

NextUrl ==
    \/ UrlSave \/ UrlGetKeyRing \/ UrlDeleteKeyRing
    \/ UrlLinkKey \/ UrlUnlinkKey \/ UrlKeys
    \/ UrlStats \/ UrlStatsForKey \/ UrlStatsForApi

SpecUrl == InitUrl /\ [][NextUrl]_vars

(***************************************************************************)
(* Claims about the request URLs (checked under SpecUrl).                  *)
(***************************************************************************)
UrlOps == {"Save", "GetKeyRing", "DeleteKeyRing", "KeyRingLinkKey",
           "KeyRingUnlinkKey", "KeyRingKeys", "Stats", "StatsForKey",
           "StatsForApi"}

\* the literal pieces that end the identifier's path segment
SegmentEnds == {"/linkkey/", "/unlinkkey/", "/keys?resolve=true&from=", "/stats?from="}

\* the path segment that follows "keyring/"
Segment(url) ==
    LET ends == {j \in 4..Len(url) : url[j] \in SegmentEnds}
        stop == IF ends = {} THEN Len(url) + 1
                ELSE CHOOSE j \in ends : \A k \in ends : j <= k
    IN  SubSeq(url, 4, stop - 1)

\* percent-encoding in which a space is %20 and a slash is %2F
RECURSIVE PercentEncode(_)
PercentEncode(s) ==
    IF s = <<>> THEN <<>>
    ELSE (IF Head(s) \in Unreserved THEN <<Head(s)>> ELSE PercentCode(Head(s)))
            \o PercentEncode(Tail(s))

\* C8 (as claimed): the path segment of every request URL is the
\* percent-encoding of the identifier, a space as %20 and a slash as %2F
\* ("a b/c" gives a%20b%2Fc).
C8_SegmentPercentEncoded ==
    call.op \in UrlOps =>
        /\ Segment(call.url) = PercentEncode(call.args.id)
        /\ call.args.id = <<"a", " ", "b", "/", "c">> =>
              Segment(call.url) = <<"a", "%", "2", "0", "b", "%", "2", "F", "c">>

HasPiece(url, piece) == \E i \in 1..Len(url) : url[i] = piece

HasParam(url, name, value) ==
    \E i \in 1..Len(url) :
        /\ url[i] = name
        /\ SubSeq(url, i + 1, i + Len(QueryEscape(value))) = QueryEscape(value)

\* C6 (as claimed): StatsForKey(k), k not empty, requests a URL with
\* forkey=k and no forapi; StatsForApi(a), a not empty, one with forapi=a and
\* no forkey; Stats one with neither.
C6_StatsSubFilter ==
    /\ (call.op = "StatsForKey" /\ call.args.key # <<>>) =>
          /\ HasParam(call.url, "&forkey=", call.args.key)
          /\ ~HasPiece(call.url, "&forapi=")
    /\ (call.op = "StatsForApi" /\ call.args.key # <<>>) =>
          /\ HasParam(call.url, "&forapi=", call.args.key)
          /\ ~HasPiece(call.url, "&forkey=")
    /\ call.op = "Stats" =>
          /\ ~HasPiece(call.url, "&forkey=")
          /\ ~HasPiece(call.url, "&forapi=")

====
